---- MODULE Spec2Model ----
(***************************************************************************)
(* Conditional-token accounting engine (Gnosis CTF on Solana).             *)
(*                                                                         *)
(* The ledger state is the Condition accounts, the vault token accounts    *)
(* (one per condition and collateral mint), the outcome mints' supplies    *)
(* and the users' token accounts.  Every instruction is one atomic         *)
(* transaction: it either applies all its writes or fails with an error    *)
(* and writes nothing.                                                     *)
(***************************************************************************)
EXTENDS Integers, Sequences, FiniteSets, TLC

VARIABLES
    conditions,   \* Condition accounts, keyed by <<oracle, question_id>>
    vault,        \* vault[<<key, mint>>]: collateral held for the condition
    supply,       \* supply[mint]: tokens outstanding of an outcome mint
    balance,      \* balance[<<user, mint>>]: a user's token account
    last,         \* name of the last instruction that was applied
    helper,       \* the last call of a client-side partition helper
    tx            \* the instruction in progress, when its steps are followed

vars == <<conditions, vault, supply, balance, last, helper, tx>>

----------------------------------------------------------------------------
(* Bounds of the model *)

\* Machine words are scaled down: a u64 is WordBits wide, a u128 twice that.
WordBits == 4
\* Largest amount a caller passes to split, merge or redeem.
MaxAmount == 2
\* Collateral each user starts with, per collateral mint.
InitBal == 2
\* Splits are tried only while every outcome supply stays within this cap.
MaxSupply == 2
\* Width of the client's bitwise arithmetic (32 bits in JavaScript).
JsBits == 5

U64Max == 2^WordBits - 1
U64Mod == 2^WordBits
U128Max == 2^(2 * WordBits) - 1

----------------------------------------------------------------------------
(* Identities, keys and mints *)

Users == {"alice", "bob"}
OracleIds == {"orc", "orc2"}
Signers == Users \cup OracleIds
QuestionIds == {"q1"}
Keys == OracleIds \X QuestionIds

MinOutcomeSlots == 2
MaxOutcomeSlots == 256
\* Largest value of the u8 that holds a condition's outcome count.
U8Max == 255
\* Outcome counts the callers try: one below the minimum, and the small ones.
SlotCounts == {1, 2, 3}
\* Outcome mints exist for slots 0 .. ModelSlots - 1 of every condition key.
ModelSlots == CHOOSE n \in SlotCounts : \A c \in SlotCounts : c <= n

BaseMint(name) == <<"base", name, 0>>
OutcomeMint(k, i) == <<k[1], k[2], i>>
CollateralMints == {BaseMint("USDC"), BaseMint("DAI")}
OutcomeMints == {OutcomeMint(k, i) : k \in Keys, i \in 0..(ModelSlots - 1)}
Mints == CollateralMints \cup OutcomeMints

----------------------------------------------------------------------------
(* Bitmask helpers *)

RECURSIVE BitAnd(_, _)
BitAnd(a, b) ==
    IF a = 0 \/ b = 0 THEN 0
    ELSE (a % 2) * (b % 2) + 2 * BitAnd(a \div 2, b \div 2)

RECURSIVE BitOr(_, _)
BitOr(a, b) ==
    IF a = 0 THEN b
    ELSE IF b = 0 THEN a
    ELSE (IF a % 2 = 1 \/ b % 2 = 1 THEN 1 ELSE 0) + 2 * BitOr(a \div 2, b \div 2)

HasBit(s, i) == (s \div (2^i)) % 2 = 1

RECURSIVE SumSeq(_)
SumSeq(s) == IF s = <<>> THEN 0 ELSE Head(s) + SumSeq(Tail(s))

\* Number of index sets of a sequence that cover outcome slot i.
RECURSIVE Cover(_, _)
Cover(sets, i) ==
    IF sets = <<>> THEN 0
    ELSE (IF HasBit(Head(sets), i) THEN 1 ELSE 0) + Cover(Tail(sets), i)

----------------------------------------------------------------------------
(* Partition validation *)

RECURSIVE ValidateLoop(_, _, _)
ValidateLoop(partition, union, full_index_set) ==
    IF partition = <<>> THEN union = full_index_set
    ELSE LET index_set == Head(partition) IN
         IF BitAnd(union, index_set) # 0 THEN FALSE
         ELSE IF index_set > full_index_set THEN FALSE
         ELSE ValidateLoop(Tail(partition), BitOr(union, index_set), full_index_set)

\* A validator that forgets the overlap check.
RECURSIVE ValidateLoopNoOverlap(_, _, _)
ValidateLoopNoOverlap(partition, union, full_index_set) ==
    IF partition = <<>> THEN union = full_index_set
    ELSE LET index_set == Head(partition) IN
         IF index_set > full_index_set THEN FALSE
         ELSE ValidateLoopNoOverlap(Tail(partition), BitOr(union, index_set),
                                    full_index_set)

validate_partition_no_overlap(partition, outcome_slot_count) ==
    IF Len(partition) = 0 \/ Len(partition) = 1 THEN FALSE
    ELSE ValidateLoopNoOverlap(partition, 0, 2^outcome_slot_count - 1)

validate_partition(partition, outcome_slot_count) ==
    IF Len(partition) = 0 \/ Len(partition) = 1 THEN FALSE
    ELSE ValidateLoop(partition, 0, 2^outcome_slot_count - 1)

----------------------------------------------------------------------------
(* The ledger as a value, and the results of instructions *)

Ledger == [conditions |-> conditions, vault |-> vault,
           supply |-> supply, balance |-> balance]

Ok(st) == [err |-> "ok", st |-> st]
Fail(st, e) == [err |-> e, st |-> st]

Slots(st, k) == 0..(st.conditions[k].outcome_slot_count - 1)


NewCondition(oracle, question_id, outcome_slot_count) ==
    [oracle |-> oracle, question_id |-> question_id,
     outcome_slot_count |-> outcome_slot_count,
     is_resolved |-> FALSE, payout_numerators |-> <<>>]

\* The outcome mints of condition k, and the slot a mint stands for.
IsOutcomeOf(st, k, m) == \E i \in Slots(st, k) : m = OutcomeMint(k, i)

----------------------------------------------------------------------------
(* prepareCondition *)

\* The address of a Condition account: seeds "condition", oracle, questionId.
\* With the oracle left out of the seeds:
deriveConditionPdaNoOracle(oracle, questionId) == <<"orc", questionId>>

deriveConditionPda(oracle, questionId) == <<oracle, questionId>>

\* The count is an instruction argument and a Condition field of type u8: a
\* larger number cannot be passed.
prepare_condition(st, oracle, question_id, outcome_slot_count) ==
    LET k == deriveConditionPda(oracle, question_id) IN
    IF outcome_slot_count > U8Max
    THEN Fail(st, "ValueOutOfRange")
    ELSE IF outcome_slot_count < MinOutcomeSlots \/ outcome_slot_count > MaxOutcomeSlots
    THEN Fail(st, "InvalidOutcomeCount")
    ELSE IF k \in DOMAIN st.conditions
    THEN Fail(st, "ConditionAlreadyExists")
    ELSE Ok([st EXCEPT !.conditions =
                @ @@ (k :> NewCondition(oracle, question_id, outcome_slot_count))])

----------------------------------------------------------------------------
(* split and merge *)

\* Claim units of outcome mint m that `amount` under `partition` stands for.
ClaimUnits(st, k, m, amount, partition) ==
    IF IsOutcomeOf(st, k, m) THEN amount * Cover(partition, m[3]) ELSE 0

MintClaims(st, user, k, amount, partition) ==
    [st EXCEPT
       !.supply = [m \in DOMAIN @ |->
                     @[m] + ClaimUnits(st, k, m, amount, partition)],
       !.balance = [x \in DOMAIN @ |->
                     IF x[1] = user
                     THEN @[x] + ClaimUnits(st, k, x[2], amount, partition)
                     ELSE @[x]]]

\* A burn that takes the covered slots' claims of every condition.
BurnClaimsAnyCondition(st, user, k, amount, partition) ==
    [st EXCEPT
       !.supply = [m \in DOMAIN @ |->
                     @[m] - (IF m[3] \in Slots(st, k)
                             THEN amount * Cover(partition, m[3]) ELSE 0)],
       !.balance = [x \in DOMAIN @ |->
                     IF x[1] = user
                     THEN @[x] - ClaimUnits(st, k, x[2], amount, partition)
                     ELSE @[x]]]

BurnClaims(st, user, k, amount, partition) ==
    [st EXCEPT
       !.supply = [m \in DOMAIN @ |->
                     @[m] - ClaimUnits(st, k, m, amount, partition)],
       !.balance = [x \in DOMAIN @ |->
                     IF x[1] = user
                     THEN @[x] - ClaimUnits(st, k, x[2], amount, partition)
                     ELSE @[x]]]

\* A burn that is never refused.
CanBurnAlways(st, user, k, amount, partition) == TRUE

CanBurn(st, user, k, amount, partition) ==
    \A i \in Slots(st, k) :
        st.balance[<<user, OutcomeMint(k, i)>>] >= amount * Cover(partition, i)

\* Collateral moves from the payer's account into the vault of (k, mint).
Deposit(st, user, k, mint, amount) ==
    [st EXCEPT !.balance[<<user, mint>>] = @ - amount,
               !.vault[<<k, mint>>] = @ + amount]

\* A withdrawal that debits the vault and credits nobody.
WithdrawNoCredit(st, user, k, mint, amount) ==
    [st EXCEPT !.vault[<<k, mint>>] = @ - amount]

\* Collateral moves out of the vault of (k, mint) to the user's account.
Withdraw(st, user, k, mint, amount) ==
    [st EXCEPT !.vault[<<k, mint>>] = @ - amount,
               !.balance[<<user, mint>>] = @ + amount]

\* A split that is refused once the condition is resolved.
split_position_unresolved_only(st, user, k, mint, amount, partition) ==
    IF st.conditions[k].is_resolved
    THEN Fail(st, "ConditionResolved")
    ELSE IF amount = 0
    THEN Fail(st, "InvalidAmount")
    ELSE IF ~validate_partition(partition, st.conditions[k].outcome_slot_count)
    THEN Fail(st, "InvalidPartition")
    ELSE IF st.balance[<<user, mint>>] < amount
    THEN Fail(st, "InsufficientFunds")
    ELSE Ok(MintClaims(Deposit(st, user, k, mint, amount), user, k, amount, partition))

split_position(st, user, k, mint, amount, partition) ==
    IF amount = 0
    THEN Fail(st, "InvalidAmount")
    ELSE IF ~validate_partition(partition, st.conditions[k].outcome_slot_count)
    THEN Fail(st, "InvalidPartition")
    ELSE IF st.balance[<<user, mint>>] < amount
    THEN Fail(st, "InsufficientFunds")
    ELSE IF \/ st.vault[<<k, mint>>] + amount > U64Max
            \/ \E i \in Slots(st, k) :
                 st.supply[OutcomeMint(k, i)] + amount * Cover(partition, i) > U64Max
    THEN Fail(st, "ArithmeticOverflow")
    ELSE Ok(MintClaims(Deposit(st, user, k, mint, amount), user, k, amount, partition))

merge_positions(st, user, k, mint, amount, partition) ==
    IF ~validate_partition(partition, st.conditions[k].outcome_slot_count)
    THEN Fail(st, "InvalidPartition")
    ELSE IF ~CanBurn(st, user, k, amount, partition)
    THEN Fail(st, "InsufficientPosition")
    ELSE IF st.vault[<<k, mint>>] < amount
    THEN Fail(st, "InsufficientVault")
    ELSE Ok(Withdraw(BurnClaims(st, user, k, amount, partition), user, k, mint, amount))

----------------------------------------------------------------------------
(* reportPayout *)

\* A report that forgets to compare the signer with the condition's oracle.
report_payout_any_signer(st, signer, k, payout_numerators) ==
    Ok([st EXCEPT !.conditions[k].payout_numerators = payout_numerators,
                  !.conditions[k].is_resolved = TRUE])

report_payout(st, signer, k, payout_numerators) ==
    IF signer # st.conditions[k].oracle
    THEN Fail(st, "UnauthorizedOracle")
    ELSE Ok([st EXCEPT !.conditions[k].payout_numerators = payout_numerators,
                       !.conditions[k].is_resolved = TRUE])

----------------------------------------------------------------------------
(* redeem *)

\* u64 arithmetic.  With overflow checks on, an overflowing operation aborts
\* the transaction; with them off, it wraps.  Which one the deployed program
\* does is decided by its build profile.
Overflows(x) == x > U64Max
Wrap(x) == x % U64Mod

calculate_payout_numerator(payout_numerators, index_set) ==
    SumSeq([i \in 1..Len(payout_numerators) |->
              IF HasBit(index_set, i - 1) THEN payout_numerators[i] ELSE 0])

\* (amount as u128).checked_mul(numerator as u128).unwrap()
\*     .checked_div(denominator as u128).unwrap() as u64
\* for denominator # 0; the product of two u64 always fits a u128.
PayoutOf(amount, payout_numerator, payout_denominator) ==
    Wrap((amount * payout_numerator) \div payout_denominator)

\* The body of the loop over index_sets: a running total and the ledger.
RECURSIVE RedeemLoop(_, _, _, _, _, _, _, _)
RedeemLoop(st, user, k, index_sets, amount, payout_denominator, total_payout, checks) ==
    IF index_sets = <<>>
    THEN [err |-> "ok", st |-> st, total_payout |-> total_payout]
    ELSE
      LET index_set == Head(index_sets)
          numerator == calculate_payout_numerator(
                           st.conditions[k].payout_numerators, index_set)
          payout == PayoutOf(amount, Wrap(numerator), payout_denominator)
          total == total_payout + payout
      IN
      IF Overflows(numerator) /\ checks
      THEN [err |-> "ArithmeticOverflow", st |-> st, total_payout |-> 0]
      ELSE IF payout_denominator = 0
      THEN [err |-> "DivisionByZero", st |-> st, total_payout |-> 0]
      ELSE IF Overflows(total) /\ checks
      THEN [err |-> "ArithmeticOverflow", st |-> st, total_payout |-> 0]
      ELSE IF ~CanBurn(st, user, k, amount, <<index_set>>)
      THEN [err |-> "InsufficientPosition", st |-> st, total_payout |-> 0]
      ELSE RedeemLoop(BurnClaims(st, user, k, amount, <<index_set>>), user, k,
                      Tail(index_sets), amount, payout_denominator,
                      Wrap(total), checks)

\* A redeem whose failure keeps the burns the loop had already made.
RedeemResolvedPartial(st, user, k, mint, index_sets, amount, checks) ==
    LET sum == SumSeq(st.conditions[k].payout_numerators) IN
    IF Overflows(sum) /\ checks
    THEN Fail(st, "ArithmeticOverflow")
    ELSE
      LET r == RedeemLoop(st, user, k, index_sets, amount, Wrap(sum), 0, checks) IN
      IF r.err # "ok"
      THEN Fail(r.st, r.err)
      ELSE IF r.st.vault[<<k, mint>>] < r.total_payout
      THEN Fail(r.st, "InsufficientVault")
      ELSE Ok(Withdraw(r.st, user, k, mint, r.total_payout))

\* Everything after the require: the denominator, the loop, the transfer.
RedeemResolved(st, user, k, mint, index_sets, amount, checks) ==
    LET sum == SumSeq(st.conditions[k].payout_numerators) IN
    IF Overflows(sum) /\ checks
    THEN Fail(st, "ArithmeticOverflow")
    ELSE
      LET r == RedeemLoop(st, user, k, index_sets, amount, Wrap(sum), 0, checks) IN
      IF r.err # "ok"
      THEN Fail(st, r.err)
      ELSE IF r.st.vault[<<k, mint>>] < r.total_payout
      THEN Fail(st, "InsufficientVault")
      ELSE Ok(Withdraw(r.st, user, k, mint, r.total_payout))

\* A redeem that forgets to require resolution.
redeem_positions_unchecked(st, user, k, mint, index_sets, amount, checks) ==
    RedeemResolved(st, user, k, mint, index_sets, amount, checks)

redeem_positions(st, user, k, mint, index_sets, amount, checks) ==
    IF ~st.conditions[k].is_resolved
    THEN Fail(st, "ConditionNotResolved")
    ELSE RedeemResolved(st, user, k, mint, index_sets, amount, checks)

----------------------------------------------------------------------------
(* Inputs the callers try *)

\* Partitions: full, compound, with an empty set, overlapping, incomplete,
\* out of range, trivial and empty ones, for 2 and 3 outcome slots.
PartitionInputs ==
    { <<>>, <<3>>, <<1, 2>>, <<1, 1>>, <<3, 1>>, <<3, 0>>,
      <<1, 2, 4>>, <<3, 4>>, <<1, 2, 8>> }

\* Payout vectors: all zero, one winner, a tie, numerators whose sum does not
\* fit a u64, and a vector for three slots.
PayoutInputs ==
    { <<0, 0>>, <<0, 1>>, <<1, 1>>, <<U64Max, 2>>, <<0, 0, 1>> }

IndexSetInputs ==
    { <<>>, <<1>>, <<2>>, <<4>>, <<3>>, <<1, 2>>, <<2, 2>> }

Amounts == 0..MaxAmount

\* JavaScript bitwise operators work on 32-bit signed integers; JsBits is
\* that width in the model.  ToInt32 is the conversion they apply to their
\* operands and result, ToUint32 its unsigned reading.
ToUint32(x) == x % (2^JsBits)

ToInt32(x) ==
    IF ToUint32(x) >= 2^(JsBits - 1) THEN ToUint32(x) - 2^JsBits ELSE ToUint32(x)

\* a << n: the shift count is taken modulo the width.
JsShl(a, n) == ToInt32(ToUint32(a) * 2^(n % JsBits))

JsAnd(a, b) == ToInt32(BitAnd(ToUint32(a), ToUint32(b)))

JsOr(a, b) == ToInt32(BitOr(ToUint32(a), ToUint32(b)))

\* PartitionHelper.fullPartition: pushes 1 << i for i = 0 .. n-1.
fullPartition(outcomeCount) == [i \in 1..outcomeCount |-> JsShl(1, i - 1)]

\* PartitionHelper.validatePartition.  The comparisons and the "- 1" are
\* number arithmetic and do not wrap; only <<, & and | do.
RECURSIVE JsValidateLoop(_, _, _)
JsValidateLoop(partition, union, fullIndexSet) ==
    IF partition = <<>> THEN union = fullIndexSet
    ELSE LET indexSet == Head(partition) IN
         IF JsAnd(union, indexSet) # 0 THEN FALSE
         ELSE IF indexSet > fullIndexSet THEN FALSE
         ELSE JsValidateLoop(Tail(partition), JsOr(union, indexSet), fullIndexSet)

validatePartition(partition, outcomeCount) ==
    IF Len(partition) = 0 \/ Len(partition) = 1 THEN FALSE
    ELSE JsValidateLoop(partition, 0, JsShl(1, outcomeCount) - 1)

FullPartitions == {fullPartition(n) : n \in {c \in SlotCounts : c >= MinOutcomeSlots}}

InRange(index_sets, outcome_slot_count) ==
    \A j \in 1..Len(index_sets) : index_sets[j] < 2^outcome_slot_count

----------------------------------------------------------------------------
(* The instructions as actions.  An instruction that fails writes nothing:  *)
(* it is a stuttering step.  `last` names the last instruction applied.     *)

\* No instruction is in progress.
Idle == [op |-> "none"]

Apply(r, op) ==
    /\ tx = Idle
    /\ r.err = "ok"
    /\ conditions' = r.st.conditions
    /\ vault' = r.st.vault
    /\ supply' = r.st.supply
    /\ balance' = r.st.balance
    /\ last' = op
    /\ helper' = helper
    /\ tx' = tx

PrepareCondition(oracle, question_id, outcome_slot_count) ==
    Apply(prepare_condition(Ledger, oracle, question_id, outcome_slot_count),
          "prepareCondition")

SplitPosition(user, k, mint, amount, partition) ==
    /\ k \in DOMAIN conditions
    /\ \A m \in OutcomeMints : supply[m] + amount <= MaxSupply
    /\ Apply(split_position(Ledger, user, k, mint, amount, partition), "split")

MergePositions(user, k, mint, amount, partition) ==
    /\ k \in DOMAIN conditions
    /\ Apply(merge_positions(Ledger, user, k, mint, amount, partition), "merge")

ReportPayout(signer, k, payout_numerators) ==
    /\ k \in DOMAIN conditions
    /\ Apply(report_payout(Ledger, signer, k, payout_numerators), "reportPayout")

RedeemPositions(user, k, mint, index_sets, amount, checks) ==
    /\ k \in DOMAIN conditions
    /\ InRange(index_sets, conditions[k].outcome_slot_count)
    /\ Apply(redeem_positions(Ledger, user, k, mint, index_sets, amount, checks),
             "redeem")

\* Before any instruction: no condition, empty vaults, no claims, and the
\* users in `users` funded with the collateral mints in `colls`.
\* No helper has been called.
NoCall == [fn |-> "none"]

InitOver(users, colls) ==
    /\ conditions = <<>>
    /\ vault = [x \in Keys \X Mints |-> 0]
    /\ supply = [m \in OutcomeMints |-> 0]
    /\ balance = [x \in Users \X Mints |->
                    IF x[1] \in users /\ x[2] \in colls THEN InitBal ELSE 0]
    /\ last = "init"
    /\ helper = NoCall
    /\ tx = Idle

Prepare(oracles, counts) ==
    \E o \in oracles, q \in QuestionIds, n \in counts :
        PrepareCondition(o, q, n)

Split(users, colls, partitions) ==
    \E u \in users, k \in Keys, m \in colls, a \in Amounts, p \in partitions :
        SplitPosition(u, k, m, a, p)

Merge(users, colls) ==
    \E u \in users, k \in Keys, m \in colls, a \in Amounts, p \in PartitionInputs :
        MergePositions(u, k, m, a, p)

Report ==
    \E s \in Signers, k \in Keys, pn \in PayoutInputs :
        ReportPayout(s, k, pn)

Redeem(users, colls) ==
    \E u \in users, k \in Keys, m \in colls,
       sets \in IndexSetInputs, a \in Amounts, checks \in BOOLEAN :
        RedeemPositions(u, k, m, sets, a, checks)

\* One user, one collateral mint, conditions of 2 or 3 outcome slots.
Init == InitOver({"alice"}, {BaseMint("USDC")})

Next ==
    \/ Prepare({"orc"}, SlotCounts)
    \/ Split({"alice"}, {BaseMint("USDC")}, PartitionInputs)
    \/ Merge({"alice"}, {BaseMint("USDC")})
    \/ Report
    \/ Redeem({"alice"}, {BaseMint("USDC")})

Spec == Init /\ [][Next]_vars

\* Two users and two collateral mints, splits under full single-bit
\* partitions only, and no redeem.
InitSplitMerge == InitOver(Users, CollateralMints)

NextSplitMerge ==
    \/ Prepare({"orc"}, SlotCounts)
    \/ Split(Users, CollateralMints, FullPartitions)
    \/ Merge(Users, CollateralMints)
    \/ Report

SpecSplitMerge == InitSplitMerge /\ [][NextSplitMerge]_vars

\* Two oracles asking the same question: alice splits on binary or ternary
\* conditions of either and the oracles report.
InitKeys == InitOver({"alice"}, {BaseMint("USDC")})

NextKeys ==
    \/ Prepare(OracleIds, SlotCounts)
    \/ Split({"alice"}, {BaseMint("USDC")}, FullPartitions)
    \/ Report

SpecKeys == InitKeys /\ [][NextKeys]_vars

----------------------------------------------------------------------------
(* Merge and redeem followed step by step.  The token program is called     *)
(* once per burn and once for the transfer; a failing call aborts the       *)
(* transaction, which puts back every account as it was when it began.      *)

\* The transfer placed ahead of the burn.
MergeOrderTransferFirst == <<"transfer", "burn">>

\* token::burn(ctx, amount)?; token::transfer(ctx, amount)?;
MergeOrder == <<"burn", "transfer">>

\* The loop over index_sets with its burns, then the transfer.
RedeemOrder == <<"burn", "transfer">>

SetLedger(st) ==
    /\ conditions' = st.conditions
    /\ vault' = st.vault
    /\ supply' = st.supply
    /\ balance' = st.balance

\* The instruction has one step less to do; with none left it is done.
Advance(t) ==
    /\ tx' = IF Len(t.todo) = 1 THEN Idle ELSE [t EXCEPT !.todo = Tail(@)]
    /\ last' = IF Len(t.todo) = 1 THEN t.op ELSE last

Abort ==
    /\ SetLedger(tx.saved)
    /\ tx' = Idle
    /\ last' = last

BeginMerge(user, k, mint, amount, partition) ==
    /\ tx = Idle
    /\ k \in DOMAIN conditions
    /\ amount > 0
    /\ validate_partition(partition, conditions[k].outcome_slot_count)
    /\ tx' = [op |-> "merge", user |-> user, k |-> k, mint |-> mint,
              amount |-> amount, index_sets |-> partition,
              sets |-> partition, todo |-> MergeOrder,
              payout_denominator |-> 0, total_payout |-> amount,
              checks |-> TRUE, saved |-> Ledger]
    /\ UNCHANGED <<conditions, vault, supply, balance, last, helper>>

BeginRedeem(user, k, mint, index_sets, amount, checks) ==
    /\ tx = Idle
    /\ k \in DOMAIN conditions
    /\ InRange(index_sets, conditions[k].outcome_slot_count)
    /\ conditions[k].is_resolved
    /\ ~(Overflows(SumSeq(conditions[k].payout_numerators)) /\ checks)
    /\ tx' = [op |-> "redeem", user |-> user, k |-> k, mint |-> mint,
              amount |-> amount, index_sets |-> index_sets,
              sets |-> index_sets, todo |-> RedeemOrder,
              payout_denominator |-> Wrap(SumSeq(conditions[k].payout_numerators)),
              total_payout |-> 0, checks |-> checks, saved |-> Ledger]
    /\ UNCHANGED <<conditions, vault, supply, balance, last, helper>>

\* Merge burns the claims of the whole partition.
MergeBurn ==
    /\ tx.op = "merge"
    /\ Head(tx.todo) = "burn"
    /\ IF CanBurn(Ledger, tx.user, tx.k, tx.amount, tx.sets)
       THEN /\ SetLedger(BurnClaims(Ledger, tx.user, tx.k, tx.amount, tx.sets))
            /\ Advance(tx)
       ELSE Abort
    /\ helper' = helper

\* One iteration of redeem's loop, or its end when no index set is left.
RedeemBurn ==
    /\ tx.op = "redeem"
    /\ Head(tx.todo) = "burn"
    /\ IF tx.sets = <<>>
       THEN /\ SetLedger(Ledger)
            /\ Advance(tx)
       ELSE LET r == RedeemLoop(Ledger, tx.user, tx.k, <<Head(tx.sets)>>,
                                tx.amount, tx.payout_denominator,
                                tx.total_payout, tx.checks)
            IN  IF r.err = "ok"
                THEN /\ SetLedger(r.st)
                     /\ tx' = [tx EXCEPT !.sets = Tail(@),
                                         !.total_payout = r.total_payout]
                     /\ last' = last
                ELSE Abort
    /\ helper' = helper

Transfer ==
    /\ tx # Idle
    /\ Head(tx.todo) = "transfer"
    /\ IF vault[<<tx.k, tx.mint>>] >= tx.total_payout
       THEN /\ SetLedger(Withdraw(Ledger, tx.user, tx.k, tx.mint, tx.total_payout))
            /\ Advance(tx)
       ELSE Abort
    /\ helper' = helper

InitSteps == InitOver({"alice"}, {BaseMint("USDC")})

NextSteps ==
    \/ Prepare({"orc"}, {2})
    \/ Split({"alice"}, {BaseMint("USDC")}, PartitionInputs)
    \/ Report
    \/ \E k \in Keys, a \in Amounts, p \in PartitionInputs :
           BeginMerge("alice", k, BaseMint("USDC"), a, p)
    \/ \E k \in Keys, a \in Amounts, s \in IndexSetInputs, checks \in BOOLEAN :
           BeginRedeem("alice", k, BaseMint("USDC"), s, a, checks)
    \/ MergeBurn
    \/ RedeemBurn
    \/ Transfer

SpecSteps == InitSteps /\ [][NextSteps]_vars

----------------------------------------------------------------------------
(* Deep splits: the outcome claims of one condition are the collateral of   *)
(* another.  The engine takes any mint as collateral.                       *)

\* A split whose collateral is not a claim of the condition being split.
DeepSplit(user, k, mint, amount, partition) ==
    /\ k \in DOMAIN conditions
    /\ ~IsOutcomeOf(Ledger, k, mint)
    /\ SplitPosition(user, k, mint, amount, partition)

InitDeep == InitOver({"alice"}, {BaseMint("USDC")})

NextDeep ==
    \/ Prepare(OracleIds, SlotCounts)
    \/ \E k \in Keys, m \in Mints, a \in Amounts, p \in FullPartitions :
           DeepSplit("alice", k, m, a, p)

SpecDeep == InitDeep /\ [][NextDeep]_vars

----------------------------------------------------------------------------
(* The partition helpers, called on their own.  A call records its          *)
(* arguments and its result; the ledger is not involved.                    *)

\* Outcome counts the helpers are called with, up to the width of the
\* client's bitwise arithmetic.
HelperCounts == 2..JsBits

\* [2^0, 2^1, ..., 2^(n-1)] as numbers.
PowersOfTwo(n) == [i \in 1..n |-> 2^(i - 1)]

\* Every sequence of at most 3 index sets over 3 slots, and the sequences of
\* single bits for every outcome count.
HelperPartitions ==
    UNION {[1..len -> 0..7] : len \in 0..3}
        \cup {PowersOfTwo(n) : n \in HelperCounts}
        \cup {fullPartition(n) : n \in HelperCounts}

ValidatePartitionCall(partition, outcomeCount) ==
    /\ helper = NoCall
    /\ helper' = [fn |-> "validatePartition", partition |-> partition,
                  outcomeCount |-> outcomeCount,
                  result |-> validatePartition(partition, outcomeCount)]
    /\ UNCHANGED <<conditions, vault, supply, balance, last, tx>>

\* The on-chain validator, for outcome counts whose mask fits its u64.
ValidatePartitionOnChain(partition, outcome_slot_count) ==
    /\ helper = NoCall
    /\ outcome_slot_count < WordBits
    /\ helper' = [fn |-> "validate_partition", partition |-> partition,
                  outcomeCount |-> outcome_slot_count,
                  result |-> validate_partition(partition, outcome_slot_count)]
    /\ UNCHANGED <<conditions, vault, supply, balance, last, tx>>

FullPartitionCall(outcomeCount) ==
    /\ helper = NoCall
    /\ helper' = [fn |-> "fullPartition", outcomeCount |-> outcomeCount,
                  result |-> fullPartition(outcomeCount)]
    /\ UNCHANGED <<conditions, vault, supply, balance, last, tx>>

\* The caller has looked at the result.
HelperReturn ==
    /\ helper # NoCall
    /\ helper' = NoCall
    /\ UNCHANGED <<conditions, vault, supply, balance, last, tx>>

InitHelpers == InitOver({}, {})

NextHelpers ==
    \/ \E p \in HelperPartitions, n \in HelperCounts : ValidatePartitionCall(p, n)
    \/ \E p \in HelperPartitions, n \in HelperCounts : ValidatePartitionOnChain(p, n)
    \/ \E n \in HelperCounts : FullPartitionCall(n)
    \/ HelperReturn

SpecHelpers == InitHelpers /\ [][NextHelpers]_vars

----------------------------------------------------------------------------
(* Two conditions side by side, each taking the base collateral or any      *)
(* outcome claim as collateral: parent and child markets.                   *)

\* The parent market takes the base mint as collateral, the child market
\* the second outcome claim of the parent.
ParentKey == <<"orc", "q1">>
ChildKey == <<"orc2", "q1">>
FrameMarkets ==
    {<<ParentKey, BaseMint("USDC")>>, <<ChildKey, OutcomeMint(ParentKey, 1)>>}

\* Collateral a caller may name: the base mint, a claim of the parent and a
\* claim of the child.
FrameMints ==
    {BaseMint("USDC"), OutcomeMint(ParentKey, 1), OutcomeMint(ChildKey, 1)}

InitFrame == InitOver({"alice"}, {BaseMint("USDC")})

NextFrame ==
    \/ Prepare(OracleIds, {MinOutcomeSlots})
    \/ \E x \in FrameMarkets, a \in Amounts :
           SplitPosition("alice", x[1], x[2], a, fullPartition(MinOutcomeSlots))
    \/ \E x \in FrameMarkets, a \in Amounts :
           MergePositions("alice", x[1], x[2], a, fullPartition(MinOutcomeSlots))
    \/ \E k \in Keys : ReportPayout(k[1], k, <<0, 1>>)
    \/ \E x \in FrameMarkets, sets \in {<<1>>, <<2>>},
          a \in Amounts, checks \in BOOLEAN :
           RedeemPositions("alice", x[1], x[2], sets, a, checks)

SpecFrame == InitFrame /\ [][NextFrame]_vars

----------------------------------------------------------------------------
(* verifyCTFInvariant *)

\* A mint whose account cannot be read: the loop passes over it.
NoAccount == -1

\* The sum of the supplies that could be read.
RECURSIVE TotalOutcomeSupply(_)
TotalOutcomeSupply(supplies) ==
    IF supplies = <<>> THEN 0
    ELSE (IF Head(supplies) = NoAccount THEN 0 ELSE Head(supplies))
             + TotalOutcomeSupply(Tail(supplies))

\* The comparison written as in the function's description: vault balance
\* against the plain sum of the supplies.
CheckInvariantBySum(vaultBalance, supplies) ==
    [isValid |-> TotalOutcomeSupply(supplies) = vaultBalance,
     vaultBalance |-> vaultBalance,
     totalOutcomeSupply |-> TotalOutcomeSupply(supplies)]

\* The body of verifyCTFInvariant on the values it has read; BigInt
\* arithmetic is exact.
CheckInvariant(vaultBalance, supplies) ==
    LET totalOutcomeSupply == TotalOutcomeSupply(supplies)
        expectedTotal == vaultBalance * Len(supplies)
    IN  [isValid |-> totalOutcomeSupply = expectedTotal,
         vaultBalance |-> vaultBalance,
         totalOutcomeSupply |-> totalOutcomeSupply]

verifyCTFInvariant(st, condition, collateralMint, outcomeMints) ==
    CheckInvariant(st.vault[<<condition, collateralMint>>],
                   [j \in 1..Len(outcomeMints) |->
                      IF outcomeMints[j] \in DOMAIN st.supply
                      THEN st.supply[outcomeMints[j]]
                      ELSE NoAccount])

\* The full list of outcome mints of condition k, in slot order.
OutcomeMintsOf(st, k) ==
    [j \in 1..st.conditions[k].outcome_slot_count |-> OutcomeMint(k, j - 1)]

\* Values the function may read: a balance or supply, or no account.
ReadBalances == 0..(MaxSupply + 1)
ReadSupplies ==
    UNION {[1..len -> ReadBalances \cup {NoAccount}] : len \in 0..ModelSlots}

VerifyInvariantCall(vaultBalance, supplies) ==
    /\ helper = NoCall
    /\ helper' = [fn |-> "verifyCTFInvariant", vaultBalance |-> vaultBalance,
                  supplies |-> supplies,
                  result |-> CheckInvariant(vaultBalance, supplies)]
    /\ UNCHANGED <<conditions, vault, supply, balance, last, tx>>

InitVerify == InitOver({}, {})

NextVerify ==
    \/ \E v \in ReadBalances, s \in ReadSupplies : VerifyInvariantCall(v, s)
    \/ HelperReturn

SpecVerify == InitVerify /\ [][NextVerify]_vars

----------------------------------------------------------------------------
(* The remaining accounts of split, merge and redeem: the list the client   *)
(* builds for a list of outcome mints, and the list the integration test    *)
(* passes.  A call records its arguments and the list built.                *)

\* getAssociatedTokenAddressSync(mint, owner).
getAssociatedTokenAddressSync(mint, owner) == <<"ata", mint, owner>>

\* One entry of remainingAccounts.
AccountMeta(pubkey) == [pubkey |-> pubkey, isSigner |-> FALSE, isWritable |-> TRUE]

\* params.outcomeMints.map(mint => getAssociatedTokenAddressSync(mint, user)).
userOutcomeAccounts(outcomeMints, user) ==
    [i \in 1..Len(outcomeMints) |->
        getAssociatedTokenAddressSync(outcomeMints[i], user)]

\* The loop of splitPosition, mergePositions and redeemPositions: for each
\* i it pushes outcomeMints[i] and then userOutcomeAccounts[i].
remainingAccounts(outcomeMints, user) ==
    [j \in 1..(2 * Len(outcomeMints)) |->
        IF j % 2 = 1
        THEN AccountMeta(outcomeMints[(j + 1) \div 2])
        ELSE AccountMeta(userOutcomeAccounts(outcomeMints, user)[j \div 2])]

\* The list of the integration test: the outcome mints in order, then the
\* user's token accounts for them in order.
TestRemainingAccounts(outcomeMints, user) ==
    [i \in 1..Len(outcomeMints) |-> AccountMeta(outcomeMints[i])]
        \o [i \in 1..Len(outcomeMints) |->
                AccountMeta(userOutcomeAccounts(outcomeMints, user)[i])]

ClientMethods == {"splitPosition", "mergePositions", "redeemPositions"}

\* Lists of one to ModelSlots outcome mints.
MintLists == UNION {[1..len -> OutcomeMints] : len \in 1..ModelSlots}

BuildAccountsCall(fn, outcomeMints, user) ==
    /\ helper = NoCall
    /\ helper' = [fn |-> fn, outcomeMints |-> outcomeMints, user |-> user,
                  result |-> remainingAccounts(outcomeMints, user)]
    /\ UNCHANGED <<conditions, vault, supply, balance, last, tx>>

InitAccounts == InitOver({}, {})

NextAccounts ==
    \/ \E fn \in ClientMethods, ms \in MintLists, u \in Users :
            BuildAccountsCall(fn, ms, u)
    \/ HelperReturn

SpecAccounts == InitAccounts /\ [][NextAccounts]_vars

----------------------------------------------------------------------------

(* The index-set conversions of PartitionHelper, called on their own.       *)

\* a >> n on 32-bit signed integers: the operand is converted, the shift
\* count is taken modulo the width, and the sign is kept.
JsShr(a, n) == ToInt32(a) \div 2^(n % JsBits)

\* PartitionHelper.outcomeToIndexSet: 1 << outcomeIndex.
outcomeToIndexSet(outcomeIndex) == JsShl(1, outcomeIndex)

\* The loop of PartitionHelper.indexSetToOutcomes.  The test remaining > 0
\* compares numbers; & and >>= work on 32-bit integers.
RECURSIVE IndexSetLoop(_, _, _)
IndexSetLoop(remaining, bit, outcomes) ==
    IF remaining > 0
    THEN IndexSetLoop(JsShr(remaining, 1), bit + 1,
                      IF JsAnd(remaining, 1) # 0
                      THEN Append(outcomes, bit) ELSE outcomes)
    ELSE outcomes

indexSetToOutcomes(indexSet) == IndexSetLoop(indexSet, 0, <<>>)

\* PartitionHelper.outcomesToIndexSet: reduce((acc, idx) => acc | (1 << idx), 0).
RECURSIVE ReduceOr(_, _)
ReduceOr(outcomeIndices, acc) ==
    IF outcomeIndices = <<>> THEN acc
    ELSE ReduceOr(Tail(outcomeIndices), JsOr(acc, JsShl(1, Head(outcomeIndices))))

outcomesToIndexSet(outcomeIndices) == ReduceOr(outcomeIndices, 0)

\* Every outcome index of a condition.
OutcomeIndices == 0..(MaxOutcomeSlots - 1)

\* Lists of at most 3 distinct outcome indices, below and above the width of
\* the bitwise arithmetic.
IndexLists ==
    {x \in UNION {[1..len -> 0..(JsBits + 1)] : len \in 0..3} :
        \A i, j \in 1..Len(x) : i # j => x[i] # x[j]}

\* Index sets as numbers, below and above the width.
IndexSets == 0..(2^(JsBits + 1) - 1)

OutcomeToIndexSetCall(outcomeIndex) ==
    /\ helper = NoCall
    /\ helper' = [fn |-> "outcomeToIndexSet", outcomeIndex |-> outcomeIndex,
                  result |-> outcomeToIndexSet(outcomeIndex)]
    /\ UNCHANGED <<conditions, vault, supply, balance, last, tx>>

IndexSetToOutcomesCall(indexSet) ==
    /\ helper = NoCall
    /\ helper' = [fn |-> "indexSetToOutcomes", indexSet |-> indexSet,
                  result |-> indexSetToOutcomes(indexSet)]
    /\ UNCHANGED <<conditions, vault, supply, balance, last, tx>>

OutcomesToIndexSetCall(outcomeIndices) ==
    /\ helper = NoCall
    /\ helper' = [fn |-> "outcomesToIndexSet", outcomeIndices |-> outcomeIndices,
                  result |-> outcomesToIndexSet(outcomeIndices)]
    /\ UNCHANGED <<conditions, vault, supply, balance, last, tx>>

InitIndexSets == InitOver({}, {})

NextIndexSets ==
    \/ \E i \in OutcomeIndices : OutcomeToIndexSetCall(i)
    \/ \E s \in IndexSets : IndexSetToOutcomesCall(s)
    \/ \E x \in IndexLists : OutcomesToIndexSetCall(x)
    \/ HelperReturn

SpecIndexSets == InitIndexSets /\ [][NextIndexSets]_vars

----------------------------------------------------------------------------

(* One collateral mint and no redeem: conditions of either oracle are split  *)
(* and merged under every kind of partition, and resolved.                   *)

InitNoRedeem == InitOver({"alice"}, {BaseMint("USDC")})

NextNoRedeem ==
    \/ Prepare(OracleIds, SlotCounts)
    \/ Split({"alice"}, {BaseMint("USDC")}, PartitionInputs)
    \/ Merge({"alice"}, {BaseMint("USDC")})
    \/ Report

SpecNoRedeem == InitNoRedeem /\ [][NextNoRedeem]_vars

----------------------------------------------------------------------------
(* Properties *)

USDC == BaseMint("USDC")
DAI == BaseMint("DAI")

\* Sum over the outcome slots of k of the claim supplies.
SupplySum(k) ==
    SumSeq([j \in 1..conditions[k].outcome_slot_count |->
              supply[OutcomeMint(k, j - 1)]])

\* Sum over the collateral mints of the vault balances of k.
RECURSIVE VaultSumOver(_, _)
VaultSumOver(k, mints) ==
    IF mints = {} THEN 0
    ELSE LET m == CHOOSE x \in mints : TRUE IN
         vault[<<k, m>>] + VaultSumOver(k, mints \ {m})

VaultSum(k) == VaultSumOver(k, CollateralMints)

C2_SplitThenMergeRestores ==
    \A u \in Users, k \in DOMAIN conditions, m \in CollateralMints,
       a \in Amounts, p \in PartitionInputs :
        LET s == split_position(Ledger, u, k, m, a, p) IN
        s.err = "ok" =>
            LET r == merge_positions(s.st, u, k, m, a, p) IN
            r.err = "ok" /\ r.st = Ledger

\* After a merge has emptied the vaults, a split under a compound partition
\* succeeds and the matching merge gives the same ledger back.
C2_Witness ==
    /\ last = "merge"
    /\ \A x \in DOMAIN vault : vault[x] = 0
    /\ \E k \in DOMAIN conditions :
           LET s == split_position(Ledger, "alice", k, USDC, MaxAmount, <<3, 4>>)
           IN  /\ s.err = "ok"
               /\ s.st.vault[<<k, USDC>>] = MaxAmount
               /\ merge_positions(s.st, "alice", k, USDC, MaxAmount, <<3, 4>>)
                      = Ok(Ledger)

\* The ledger a successful split of amount a must leave behind.
SplitExpected(u, k, m, a) ==
    [conditions |-> conditions,
     vault |-> [x \in DOMAIN vault |->
                  IF x = <<k, m>> THEN vault[x] + a ELSE vault[x]],
     supply |-> [c \in DOMAIN supply |->
                  IF IsOutcomeOf(Ledger, k, c) THEN supply[c] + a ELSE supply[c]],
     balance |-> [x \in DOMAIN balance |->
                  IF x = <<u, m>> THEN balance[x] - a
                  ELSE IF x[1] = u /\ IsOutcomeOf(Ledger, k, x[2])
                       THEN balance[x] + a
                       ELSE balance[x]]]

\* C3: a successful split of amount a raises the vault balance by exactly a,
\* raises the supply of every outcome slot of the condition by exactly a,
\* lowers the payer's collateral by a, credits the caller a claims of every
\* slot, and changes nothing else.
C3_SplitEffect ==
    \A u \in Users, k \in DOMAIN conditions, m \in CollateralMints,
       a \in Amounts, p \in PartitionInputs :
        LET s == split_position(Ledger, u, k, m, a, p) IN
        s.err = "ok" => s.st = SplitExpected(u, k, m, a)

C3_Witness ==
    /\ last = "split"
    /\ \E k \in DOMAIN conditions :
           /\ vault[<<k, USDC>>] = MaxAmount
           /\ conditions[k].outcome_slot_count = 3
           /\ \A i \in Slots(Ledger, k) :
                  balance[<<"alice", OutcomeMint(k, i)>>] = MaxAmount

\* What user u has put into the vaults of mint m, net of what u has taken
\* out.  Collateral leaves a user's account only into a vault and enters it
\* only from a vault.
NetDeposit(u, m) == InitBal - balance[<<u, m>>]

\* C4: claims minted by splitting one collateral mint into a condition can
\* never take another collateral mint out of that condition's vault: a user
\* who has no net deposit of mint m cannot merge m out, and no user's net
\* deposit of a mint is ever negative.
C4_VaultIsolation ==
    /\ \A u \in Users, m \in CollateralMints : NetDeposit(u, m) >= 0
    /\ \A u \in Users, k \in DOMAIN conditions, m \in CollateralMints,
          a \in Amounts \ {0}, p \in PartitionInputs :
           NetDeposit(u, m) = 0 => merge_positions(Ledger, u, k, m, a, p).err # "ok"

\* C5: from states reached from empty ledgers, no merge and no redeem whose
\* claim burns can all be satisfied fails with InsufficientVault on a vault
\* that holds collateral.
C5_InsufficientVaultUnreachable ==
    \A u \in Users, k \in DOMAIN conditions, m \in CollateralMints, a \in Amounts :
        vault[<<k, m>>] > 0 =>
          /\ \A p \in PartitionInputs :
                merge_positions(Ledger, u, k, m, a, p).err # "InsufficientVault"
          /\ \A index_sets \in IndexSetInputs, checks \in BOOLEAN :
                InRange(index_sets, conditions[k].outcome_slot_count) =>
                  redeem_positions(Ledger, u, k, m, index_sets, a, checks).err
                      # "InsufficientVault"

\* C6: once a condition is resolved, every later report by its oracle, one
\* repeating the stored vector included, fails with AlreadyResolved and
\* leaves the condition as it was.
C6_ResolutionFinal ==
    \A k \in DOMAIN conditions : \A payout_numerators \in PayoutInputs :
        conditions[k].is_resolved =>
            LET r == report_payout(Ledger, conditions[k].oracle, k, payout_numerators)
            IN  r.err = "AlreadyResolved" /\ r.st.conditions[k] = conditions[k]

\* C7: a report signed by anyone but the condition's oracle fails with
\* UnauthorizedOracle and changes nothing, whatever the payout vector and
\* whether or not the condition is resolved.
C7_OnlyOracleResolves ==
    \A k \in DOMAIN conditions, signer \in Signers, payout_numerators \in PayoutInputs :
        signer # conditions[k].oracle =>
            report_payout(Ledger, signer, k, payout_numerators)
                = Fail(Ledger, "UnauthorizedOracle")

\* A resolved and an unresolved moment both occur with the wrong signer turned
\* away: here the resolved one, after the oracle's own report went through.
C7_Witness ==
    /\ last = "reportPayout"
    /\ \E k \in DOMAIN conditions :
          /\ conditions[k].is_resolved
          /\ "alice" # conditions[k].oracle
          /\ report_payout(Ledger, "alice", k, <<1, 1>>).err = "UnauthorizedOracle"

\* C8: a condition is resolved exactly when its payout vector is non-empty,
\* and a non-empty payout vector has one entry per outcome slot and at least
\* one non-zero entry.
C8_ResolvedIffValidVector ==
    \A k \in DOMAIN conditions :
        /\ conditions[k].is_resolved <=> conditions[k].payout_numerators # <<>>
        /\ conditions[k].payout_numerators # <<>> =>
              /\ Len(conditions[k].payout_numerators) = conditions[k].outcome_slot_count
              /\ \E i \in 1..Len(conditions[k].payout_numerators) :
                     conditions[k].payout_numerators[i] # 0

\* C9: on a condition that is not resolved, redeem fails with
\* ConditionNotResolved for every caller, collateral mint, list of index sets
\* and amount, and changes nothing.
C9_RedeemRequiresResolution ==
    \A u \in Users, k \in DOMAIN conditions, m \in CollateralMints,
       index_sets \in IndexSetInputs, a \in Amounts, checks \in BOOLEAN :
        ~conditions[k].is_resolved =>
            redeem_positions(Ledger, u, k, m, index_sets, a, checks)
                = Fail(Ledger, "ConditionNotResolved")

\* A holder of claims on a funded, unresolved condition is turned away.
C9_Witness ==
    /\ last = "split"
    /\ \E k \in DOMAIN conditions :
          /\ ~conditions[k].is_resolved
          /\ vault[<<k, USDC>>] > 0
          /\ balance[<<"alice", OutcomeMint(k, 1)>>] > 0
          /\ redeem_positions(Ledger, "alice", k, USDC, <<2>>, 1, TRUE).err
                 = "ConditionNotResolved"

\* The payout the redeem loop computes for one index set, with the
\* denominator computed as redeem computes it.
PayoutFor(payout_numerators, index_set, amount, checks) ==
    LET sum == SumSeq(payout_numerators)
        numerator == calculate_payout_numerator(payout_numerators, index_set)
    IN  IF (Overflows(sum) \/ Overflows(numerator)) /\ checks
        THEN [err |-> "ArithmeticOverflow", payout |-> 0]
        ELSE IF Wrap(sum) = 0
        THEN [err |-> "DivisionByZero", payout |-> 0]
        ELSE [err |-> "ok", payout |-> PayoutOf(amount, Wrap(numerator), Wrap(sum))]

\* C10: for a resolved condition whose numerators sum to D # 0, an index set
\* S and an amount a, the payout is floor(a * N / D), N being the sum of the
\* numerators of the slots in S.
C10_PayoutExact ==
    \A k \in DOMAIN conditions, index_set \in 0..(2^ModelSlots - 1),
       a \in Amounts, checks \in BOOLEAN :
        LET pn == conditions[k].payout_numerators
            D == SumSeq(pn)
            N == calculate_payout_numerator(pn, index_set)
        IN  (conditions[k].is_resolved /\ D # 0
               /\ index_set < 2^conditions[k].outcome_slot_count) =>
                PayoutFor(pn, index_set, a, checks) =
                    [err |-> "ok", payout |-> (a * N) \div D]

\* Condition k is resolved with a vector of one entry per slot whose only
\* non-zero entry is that of slot w.
SoleWinner(k, w) ==
    LET pn == conditions[k].payout_numerators IN
    /\ conditions[k].is_resolved
    /\ Len(pn) = conditions[k].outcome_slot_count
    /\ w \in Slots(Ledger, k)
    /\ \A i \in Slots(Ledger, k) : (pn[i + 1] # 0) <=> (i = w)

\* The ledger after user u has redeemed a claims of slot w of k for a
\* units of collateral m.
RedeemedWinner(u, k, m, w, a) ==
    [conditions |-> conditions,
     vault |-> [vault EXCEPT ![<<k, m>>] = @ - a],
     supply |-> [supply EXCEPT ![OutcomeMint(k, w)] = @ - a],
     balance |-> [balance EXCEPT ![<<u, OutcomeMint(k, w)>>] = @ - a,
                                 ![<<u, m>>] = @ + a]]

\* C11: on a condition split on one collateral and resolved with a vector
\* whose only non-zero entry is slot w, a holder of a claims of w who redeems
\* a units of index set {w} gets a claims of w burned and exactly a collateral
\* credited, the other supplies untouched; and once the supply of w is zero
\* the vault is empty.
C11_WinnerRedeemsEverything ==
    \A k \in DOMAIN conditions, w \in 0..(ModelSlots - 1) :
        SoleWinner(k, w) =>
          /\ supply[OutcomeMint(k, w)] = 0 => vault[<<k, USDC>>] = 0
          /\ \A u \in Users, a \in Amounts \ {0}, checks \in BOOLEAN :
                balance[<<u, OutcomeMint(k, w)>>] >= a =>
                  redeem_positions(Ledger, u, k, USDC, <<2^w>>, a, checks)
                      = Ok(RedeemedWinner(u, k, USDC, w, a))

\* Outcome counts a caller may pass to prepareCondition, valid or not.
CountInputs == SlotCounts \cup {0, U8Max, MaxOutcomeSlots}

Unchanged(r) == r.err # "ok" => r.st = Ledger

\* C12: every prepareCondition, split, merge, reportPayout or redeem that
\* fails, with whatever error, leaves conditions, vaults, supplies and user
\* balances exactly as they were; a redeem that fails at a later index set
\* keeps none of the burns of the earlier ones.
C12_AllOrNothing ==
    /\ \A o \in OracleIds, q \in QuestionIds, n \in CountInputs :
          Unchanged(prepare_condition(Ledger, o, q, n))
    /\ \A k \in DOMAIN conditions :
          /\ \A signer \in Signers, pn \in PayoutInputs :
                Unchanged(report_payout(Ledger, signer, k, pn))
          /\ \A u \in Users, m \in CollateralMints, a \in Amounts :
                /\ \A p \in PartitionInputs :
                      /\ Unchanged(split_position(Ledger, u, k, m, a, p))
                      /\ Unchanged(merge_positions(Ledger, u, k, m, a, p))
                /\ \A index_sets \in IndexSetInputs, checks \in BOOLEAN :
                      InRange(index_sets, conditions[k].outcome_slot_count) =>
                        Unchanged(redeem_positions(Ledger, u, k, m, index_sets,
                                                   a, checks))

\* Alice holds one claim of slot 1 and redeems it twice in one call: the loop
\* burns the first and fails at the second.
C12_Witness ==
    \E k \in DOMAIN conditions :
        /\ conditions[k].is_resolved
        /\ conditions[k].payout_numerators = <<0, 1>>
        /\ balance[<<"alice", OutcomeMint(k, 1)>>] = 1
        /\ redeem_positions(Ledger, "alice", k, USDC, <<2, 2>>, 1, TRUE)
               = Fail(Ledger, "InsufficientPosition")
        /\ RedeemLoop(Ledger, "alice", k, <<2>>, 1, 1, 0, TRUE).st # Ledger

\* The four ways a partition over n slots can be wrong, said without the
\* validator's running union.
Trivial(p) == Len(p) < 2

Overlapping(p) ==
    \E i, j \in 1..Len(p) : i < j /\ \E b \in 0..7 : HasBit(p[i], b) /\ HasBit(p[j], b)

OutOfRange(p, n) == \E j \in 1..Len(p) : p[j] >= 2^n

Incomplete(p, n) == \E b \in 0..(n - 1) : \A j \in 1..Len(p) : ~HasBit(p[j], b)

Rejected(p, n) ==
    Trivial(p) \/ Overlapping(p) \/ OutOfRange(p, n) \/ Incomplete(p, n)

\* C13: a split or a merge under a partition that is overlapping,
\* incomplete, out of range or shorter than 2 fails with InvalidPartition and
\* changes no vault, supply or balance (a split of amount 0 may be refused
\* for its amount instead).
C13_InvalidPartitionRejected ==
    \A u \in Users, k \in DOMAIN conditions, m \in CollateralMints,
       a \in Amounts, p \in PartitionInputs :
        Rejected(p, conditions[k].outcome_slot_count) =>
          /\ merge_positions(Ledger, u, k, m, a, p) = Fail(Ledger, "InvalidPartition")
          /\ LET s == split_position(Ledger, u, k, m, a, p) IN
             /\ s.st = Ledger
             /\ s.err = IF a = 0 THEN "InvalidAmount" ELSE "InvalidPartition"

\* Alice has the collateral for the split and the claims for the merge; only
\* the partition is wrong.
C13_Witness ==
    /\ last = "split"
    /\ \E k \in DOMAIN conditions :
          /\ conditions[k].outcome_slot_count = 2
          /\ balance[<<"alice", USDC>>] >= 1
          /\ vault[<<k, USDC>>] >= 1
          /\ CanBurn(Ledger, "alice", k, 1, <<3>>)
          /\ split_position(Ledger, "alice", k, USDC, 1, <<3, 1>>).err = "InvalidPartition"
          /\ merge_positions(Ledger, "alice", k, USDC, 1, <<3>>).err = "InvalidPartition"

ValidatorCalled == helper.fn \in {"validatePartition", "validate_partition"}

\* At least two non-empty, pairwise disjoint index sets whose union is all n
\* bits.
ProperPartition(p, n) ==
    /\ Len(p) >= 2
    /\ \A j \in 1..Len(p) : p[j] > 0
    /\ ~Overlapping(p)
    /\ ~OutOfRange(p, n)
    /\ ~Incomplete(p, n)

\* C14: for every outcome count n and every sequence of index sets, either
\* validator returns false when the sequence is shorter than 2, when two of
\* its sets share a bit, when a set has a bit at position n or above, or when
\* the union is not all n bits; and returns true for every sequence of at
\* least two non-empty, pairwise disjoint sets whose union is all n bits.
C14_ValidatorCorrect ==
    ValidatorCalled =>
        /\ Rejected(helper.partition, helper.outcomeCount) => ~helper.result
        /\ ProperPartition(helper.partition, helper.outcomeCount) => helper.result

\* C15: either validator rejects every partition that contains an empty
\* index set, also when the other sets are disjoint and cover every slot.
C15_EmptyIndexSetRejected ==
    ValidatorCalled =>
        ((\E j \in 1..Len(helper.partition) : helper.partition[j] = 0)
            => ~helper.result)

\* C16: for every outcome count n from 2 up to the maximum, fullPartition(n)
\* is [2^0, 2^1, ..., 2^(n-1)] and validatePartition accepts it for n.
C16_HelpersCorrectForEveryCount ==
    /\ helper.fn = "fullPartition" =>
          helper.result = PowersOfTwo(helper.outcomeCount)
    /\ (helper.fn = "validatePartition"
          /\ helper.partition = fullPartition(helper.outcomeCount)) => helper.result

\* C17: on an unused key, prepareCondition succeeds exactly when the count
\* is between the minimum and the maximum number of outcome slots, and then
\* creates an unresolved condition with that oracle and count and no payout
\* vector; for every other count it fails with InvalidOutcomeCount and
\* creates nothing.
C17_PrepareExactlyInRange ==
    \A o \in OracleIds, q \in QuestionIds, n \in CountInputs :
        <<o, q>> \notin DOMAIN conditions =>
            prepare_condition(Ledger, o, q, n) =
                IF n >= MinOutcomeSlots /\ n <= MaxOutcomeSlots
                THEN Ok([Ledger EXCEPT !.conditions = @ @@ (<<o, q>> :>
                           [oracle |-> o, question_id |-> q,
                            outcome_slot_count |-> n, is_resolved |-> FALSE,
                            payout_numerators |-> <<>>])])
                ELSE Fail(Ledger, "InvalidOutcomeCount")

\* The ledger with no condition in it: what a call would do on a free key.
NoConditions == [Ledger EXCEPT !.conditions = <<>>]

\* C18: a prepareCondition on a key that exists creates nothing and leaves
\* the existing condition as it is, and when it would have succeeded on a
\* free key its error is ConditionAlreadyExists; the same question under
\* another oracle is a condition of its own; and every condition is filed
\* under its own oracle and question, one per key.
C18_ConditionKeysUnique ==
    /\ \A k \in DOMAIN conditions :
          conditions[k].oracle = k[1] /\ conditions[k].question_id = k[2]
    /\ \A o \in OracleIds, q \in QuestionIds, n \in CountInputs :
          LET r == prepare_condition(Ledger, o, q, n) IN
          IF <<o, q>> \in DOMAIN conditions
          THEN /\ r.err # "ok"
               /\ r.st = Ledger
               /\ prepare_condition(NoConditions, o, q, n).err = "ok"
                      => r.err = "ConditionAlreadyExists"
          ELSE r.err = "ok" =>
                 /\ DOMAIN r.st.conditions = DOMAIN conditions \cup {<<o, q>>}
                 /\ \A k \in DOMAIN conditions : r.st.conditions[k] = conditions[k]

\* Both oracles have a condition for the same question, with different
\* outcome counts, one of them resolved, and preparing either again is
\* refused.
C18_Witness ==
    /\ DOMAIN conditions = {<<"orc", "q1">>, <<"orc2", "q1">>}
    /\ conditions[<<"orc", "q1">>].outcome_slot_count = 2
    /\ conditions[<<"orc2", "q1">>].outcome_slot_count = 3
    /\ conditions[<<"orc", "q1">>].is_resolved
    /\ ~conditions[<<"orc2", "q1">>].is_resolved
    /\ prepare_condition(Ledger, "orc", "q1", 3).err = "ConditionAlreadyExists"
    /\ prepare_condition(Ledger, "orc2", "q1", 2).err = "ConditionAlreadyExists"

\* The instruction in progress still has claims to burn.
BurnsPending == tx # Idle /\ \E i \in 1..Len(tx.todo) : tx.todo[i] = "burn"

\* The ledger once every burn of the instruction in progress is made.
AllBurned ==
    IF tx.op = "merge"
    THEN BurnClaims(tx.saved, tx.user, tx.k, tx.amount, tx.index_sets)
    ELSE RedeemLoop(tx.saved, tx.user, tx.k, tx.index_sets, tx.amount,
                    tx.payout_denominator, 0, tx.checks).st

\* C19: in every merge and every redeem, while a claim burn of the
\* instruction is still to come no collateral has left the vault and nobody
\* has been credited; when the transfer is the step that remains, every burn
\* of the instruction has been made.
C19_BurnBeforeTransfer ==
    tx # Idle =>
        IF BurnsPending
        THEN /\ vault = tx.saved.vault
             /\ \A u \in Users, m \in CollateralMints :
                    balance[<<u, m>>] = tx.saved.balance[<<u, m>>]
        ELSE Ledger = AllBurned

\* A redeem over two index sets has burned the first and not yet the second.
C19_Witness ==
    /\ tx.op = "redeem"
    /\ BurnsPending
    /\ Len(tx.sets) = 1
    /\ Len(tx.index_sets) = 2
    /\ tx.total_payout > 0
    /\ supply # tx.saved.supply
    /\ vault[<<tx.k, tx.mint>>] > 0

\* Condition x depends on condition y: a vault of x holds claims of y.
DependsOn(x, y) ==
    \E i \in Slots(Ledger, y) : vault[<<x, OutcomeMint(y, i)>>] > 0

\* A chain of at most n dependencies leads from x to y.
RECURSIVE DependsWithin(_, _, _)
DependsWithin(x, y, n) ==
    /\ n > 0
    /\ \/ DependsOn(x, y)
       \/ \E z \in DOMAIN conditions : DependsOn(x, z) /\ DependsWithin(z, y, n - 1)

\* C20: the dependency graph of the conditions, with an edge from x to y
\* when a vault of x holds an outcome claim of y, has no cycle in any state
\* reached by prepareCondition and split.
C20_DependencyGraphAcyclic ==
    \A x \in DOMAIN conditions : ~DependsWithin(x, x, Cardinality(Keys))

\* The result r of an instruction on condition k has left every other
\* condition's record, vaults and outcome supplies as they are.
OthersUntouched(r, k) ==
    /\ DOMAIN r.st.conditions = DOMAIN conditions
    /\ \A k2 \in DOMAIN conditions \ {k} :
          /\ r.st.conditions[k2] = conditions[k2]
          /\ \A m \in Mints : r.st.vault[<<k2, m>>] = vault[<<k2, m>>]
          /\ \A i \in Slots(Ledger, k2) :
                r.st.supply[OutcomeMint(k2, i)] = supply[OutcomeMint(k2, i)]

\* C21: every split, merge, redeem and reportPayout on one condition leaves
\* the Condition record, every vault balance and every outcome supply of
\* every other condition unchanged, also when the collateral of the
\* operation is an outcome claim of that other condition.
C21_OtherConditionsUntouched ==
    \A k \in DOMAIN conditions :
        /\ \A signer \in Signers, pn \in PayoutInputs :
              OthersUntouched(report_payout(Ledger, signer, k, pn), k)
        /\ \A u \in Users, m \in FrameMints, a \in Amounts :
              /\ \A p \in PartitionInputs :
                    /\ OthersUntouched(split_position(Ledger, u, k, m, a, p), k)
                    /\ OthersUntouched(merge_positions(Ledger, u, k, m, a, p), k)
              /\ \A index_sets \in IndexSetInputs, checks \in BOOLEAN :
                    InRange(index_sets, conditions[k].outcome_slot_count) =>
                      OthersUntouched(redeem_positions(Ledger, u, k, m, index_sets,
                                                       a, checks), k)

\* A child holds a claim of its parent as collateral, the parent holds base
\* collateral, and a merge and a redeem on the child both go through.
C21_Witness ==
    \E parent \in DOMAIN conditions, child \in DOMAIN conditions :
        LET claim == OutcomeMint(parent, 1) IN
        /\ parent # child
        /\ vault[<<parent, BaseMint("USDC")>>] > 0
        /\ vault[<<child, claim>>] > 0
        /\ supply[claim] > 0
        /\ conditions[child].is_resolved
        /\ merge_positions(Ledger, "alice", child, claim, 1, <<1, 2>>).err = "ok"
        /\ redeem_positions(Ledger, "alice", child, claim, <<2>>, 1, TRUE).err = "ok"

\* Instructions that name a collateral mint, as values: the kind, the caller,
\* the amount and the index sets.
CollateralOps(n) ==
    [kind : {"split", "merge"}, user : Users, amount : Amounts,
     sets : {fullPartition(n)}]
      \cup [kind : {"redeem"}, user : Users, amount : Amounts,
            sets : {<<1>>, <<2>>}]

Exec(st, op, k, mint) ==
    IF op.kind = "split"
    THEN split_position(st, op.user, k, mint, op.amount, op.sets)
    ELSE IF op.kind = "merge"
    THEN merge_positions(st, op.user, k, mint, op.amount, op.sets)
    ELSE redeem_positions(st, op.user, k, mint, op.sets, op.amount, TRUE)

\* C22: for two operations on the same condition with different collateral
\* mints, running the first then the second gives each operation the same
\* success or error, and the same final ledger, as running the second then
\* the first.
C22_DifferentCollateralsCommute ==
    \A k \in DOMAIN conditions :
        \A op1, op2 \in CollateralOps(conditions[k].outcome_slot_count) :
            LET r1 == Exec(Ledger, op1, k, USDC)
                r12 == Exec(r1.st, op2, k, DAI)
                r2 == Exec(Ledger, op2, k, DAI)
                r21 == Exec(r2.st, op1, k, USDC)
            IN  /\ r1.err = r21.err
                /\ r2.err = r12.err
                /\ r12.st = r21.st

\* C23: verifyCTFInvariant reports isValid = true for a condition, its one
\* collateral mint and its full list of outcome mints in every reachable
\* state of a condition that is only split with full partitions on that one
\* collateral, states after resolution and redemption included, for the
\* parent and for the child market.
C23_InvariantReportedValid ==
    \A x \in FrameMarkets :
        x[1] \in DOMAIN conditions =>
            verifyCTFInvariant(Ledger, x[1], x[2],
                               OutcomeMintsOf(Ledger, x[1])).isValid

VerifyCalled == helper.fn = "verifyCTFInvariant"

\* The supplies the function was given that have an account, summed.
SuppliesRead(supplies) ==
    SumSeq([j \in 1..Len(supplies) |->
              IF supplies[j] = NoAccount THEN 0 ELSE supplies[j]])

ExactTotal(payout_numerators, index_sets, amount) ==
    SumSeq([j \in 1..Len(index_sets) |->
              (amount * calculate_payout_numerator(payout_numerators, index_sets[j]))
                  \div SumSeq(payout_numerators)])

\* Some exact result of the redeem's arithmetic does not fit a u64: the sum
\* of the numerators, the numerator of a listed set, or the total payout.
ExactOverflow(payout_numerators, index_sets, amount) ==
    \/ Overflows(SumSeq(payout_numerators))
    \/ \E j \in 1..Len(index_sets) :
          Overflows(calculate_payout_numerator(payout_numerators, index_sets[j]))
    \/ Overflows(ExactTotal(payout_numerators, index_sets, amount))

\* C25: a redeem in which the sum of the payout numerators, a payout
\* numerator or the accumulated total does not fit the unsigned 64-bit range
\* fails with ArithmeticOverflow and changes nothing, whatever the build; a
\* split whose vault balance or supply would not fit fails the same way.
C25_OverflowFailsExplicitly ==
    \A u \in Users, k \in DOMAIN conditions, a \in Amounts :
        /\ \A index_sets \in IndexSetInputs, checks \in BOOLEAN :
              (/\ conditions[k].is_resolved
               /\ SumSeq(conditions[k].payout_numerators) # 0
               /\ InRange(index_sets, conditions[k].outcome_slot_count)
               /\ ExactOverflow(conditions[k].payout_numerators, index_sets, a))
                  => redeem_positions(Ledger, u, k, USDC, index_sets, a, checks)
                         = Fail(Ledger, "ArithmeticOverflow")
        /\ \A p \in PartitionInputs :
              LET s == split_position(Ledger, u, k, USDC, a, p) IN
              s.err = "ok" =>
                  /\ s.st.vault[<<k, USDC>>] = vault[<<k, USDC>>] + a
                  /\ \A m \in OutcomeMints : s.st.supply[m] <= U64Max

\* What one step may do to the Condition accounts.
LifecycleStep ==
    \A k \in DOMAIN conditions :
        /\ k \in DOMAIN conditions'
        /\ conditions'[k].oracle = conditions[k].oracle
        /\ conditions'[k].question_id = conditions[k].question_id
        /\ conditions'[k].outcome_slot_count = conditions[k].outcome_slot_count
        /\ conditions[k].is_resolved => conditions'[k].is_resolved
        /\ conditions'[k] # conditions[k] =>
              /\ last' = "reportPayout"
              /\ ~conditions[k].is_resolved

\* C26: a condition, once created, is never destroyed; its oracle,
\* question_id and outcome_slot_count never change; is_resolved never goes
\* back to false; and a Condition record changes only in a successful
\* reportPayout, at most once per condition: never in a split, a merge or a
\* redeem, and never once it is resolved.
C26_ConditionLifecycle == [][LifecycleStep]_vars

\* The ledger with condition k put back to unresolved.
Unresolved(k) ==
    [Ledger EXCEPT !.conditions[k].is_resolved = FALSE,
                   !.conditions[k].payout_numerators = <<>>]

\* C27: a split with amount > 0 and a valid partition on a resolved condition
\* succeeds whenever the caller has the collateral, and has exactly the
\* effect on the vault, the supplies and the balances, or the error, that the
\* same split has on the same ledger with the condition unresolved.
C27_SplitIgnoresResolution ==
    \A k \in DOMAIN conditions :
        conditions[k].is_resolved =>
            \A u \in Users, m \in CollateralMints, a \in Amounts, p \in PartitionInputs :
                LET r == split_position(Ledger, u, k, m, a, p)
                    r0 == split_position(Unresolved(k), u, k, m, a, p)
                IN  /\ r.err = r0.err
                    /\ r.st.vault = r0.st.vault
                    /\ r.st.supply = r0.st.supply
                    /\ r.st.balance = r0.st.balance
                    /\ r.st.conditions = conditions
                    /\ (/\ a > 0
                        /\ validate_partition(p, conditions[k].outcome_slot_count)
                        /\ balance[<<u, m>>] >= a)
                          => /\ r.err = "ok"
                             /\ r.st.vault[<<k, m>>] = vault[<<k, m>>] + a

\* The last instruction applied was a split on a resolved condition.
C27_Witness ==
    /\ last = "split"
    /\ \E k \in DOMAIN conditions :
          /\ conditions[k].is_resolved
          /\ vault[<<k, USDC>>] > 0
          /\ \A i \in Slots(Ledger, k) : supply[OutcomeMint(k, i)] > 0

\* User u holds at least a claims of every outcome slot of k.
HoldsCompleteSet(u, k, a) ==
    \A i \in Slots(Ledger, k) : balance[<<u, OutcomeMint(k, i)>>] >= a

\* C28: in every reachable state, before and after resolution, a merge of
\* amount a under a valid partition by a caller who holds at least a claims
\* of every outcome succeeds and credits the caller exactly a collateral;
\* checked for merging back into a collateral mint of which the caller has
\* put at least a into the vaults.
C28_CompleteSetMergesAnytime ==
    \A u \in Users, k \in DOMAIN conditions, m \in CollateralMints,
       a \in Amounts, p \in PartitionInputs :
        (/\ validate_partition(p, conditions[k].outcome_slot_count)
         /\ HoldsCompleteSet(u, k, a)
         /\ NetDeposit(u, m) >= a)
            => LET r == merge_positions(Ledger, u, k, m, a, p) IN
               /\ r.err = "ok"
               /\ r.st.balance[<<u, m>>] = balance[<<u, m>>] + a

\* C29: a redeem of amount a over index sets S1..Sk on a resolved condition
\* that succeeds lowers the supply of each outcome slot by a times the number
\* of listed sets that cover it, and takes from the vault, and credits the
\* caller, the sum over j of floor(a * N(Sj) / D), each set rounded down on
\* its own.
C29_RedeemPerIndexSet ==
    \A u \in Users, k \in DOMAIN conditions, a \in Amounts,
       index_sets \in IndexSetInputs, checks \in BOOLEAN :
        LET pn == conditions[k].payout_numerators
            r == redeem_positions(Ledger, u, k, USDC, index_sets, a, checks)
        IN  (/\ conditions[k].is_resolved
             /\ SumSeq(pn) # 0
             /\ InRange(index_sets, conditions[k].outcome_slot_count)
             /\ r.err = "ok")
              => /\ \A i \in Slots(Ledger, k) :
                       r.st.supply[OutcomeMint(k, i)]
                           = supply[OutcomeMint(k, i)] - a * Cover(index_sets, i)
                 /\ r.st.vault[<<k, USDC>>]
                       = vault[<<k, USDC>>] - ExactTotal(pn, index_sets, a)
                 /\ r.st.balance[<<u, USDC>>]
                       = balance[<<u, USDC>>] + ExactTotal(pn, index_sets, a)

\* Some burn of the call asks for more claims of a covered slot than the
\* caller holds.
BurnExceeds(u, k, a, sets) ==
    \E i \in Slots(Ledger, k) :
        a * Cover(sets, i) > balance[<<u, OutcomeMint(k, i)>>]

\* C30: in every reachable state every vault balance, every outcome supply
\* and every holding is at least 0 and no holding exceeds its supply; a merge
\* under a valid partition, or a redeem on a resolved condition whose payout
\* arithmetic goes through, in which a required burn exceeds the caller's
\* holding of a covered outcome fails with InsufficientPosition and changes
\* nothing.
C30_NonNegativeLedgers ==
    /\ \A x \in DOMAIN vault : vault[x] >= 0
    /\ \A m \in DOMAIN supply : supply[m] >= 0
    /\ \A x \in DOMAIN balance : balance[x] >= 0
    /\ \A u \in Users, m \in DOMAIN supply : balance[<<u, m>>] <= supply[m]
    /\ \A u \in Users, k \in DOMAIN conditions, a \in Amounts :
          /\ \A p \in PartitionInputs :
                (/\ validate_partition(p, conditions[k].outcome_slot_count)
                 /\ BurnExceeds(u, k, a, p))
                    => merge_positions(Ledger, u, k, USDC, a, p)
                           = Fail(Ledger, "InsufficientPosition")
          /\ \A index_sets \in IndexSetInputs, checks \in BOOLEAN :
                (/\ conditions[k].is_resolved
                 /\ InRange(index_sets, conditions[k].outcome_slot_count)
                 /\ SumSeq(conditions[k].payout_numerators) # 0
                 /\ ~ExactOverflow(conditions[k].payout_numerators, index_sets, a)
                 /\ BurnExceeds(u, k, a, index_sets))
                    => redeem_positions(Ledger, u, k, USDC, index_sets, a, checks)
                           = Fail(Ledger, "InsufficientPosition")

\* After a redeem alice holds one claim of the winning slot and none of the
\* other, the vault still holds collateral, and a merge of 1 and a redeem of
\* the winner twice over are both refused.
C30_Witness ==
    /\ last = "redeem"
    /\ \E k \in DOMAIN conditions :
          /\ conditions[k].payout_numerators = <<0, 1>>
          /\ balance[<<"alice", OutcomeMint(k, 0)>>] = 0
          /\ balance[<<"alice", OutcomeMint(k, 1)>>] = 1
          /\ vault[<<k, USDC>>] >= 1
          /\ merge_positions(Ledger, "alice", k, USDC, 1, <<1, 2>>).err
                 = "InsufficientPosition"
          /\ redeem_positions(Ledger, "alice", k, USDC, <<2, 2>>, 1, TRUE).err
                 = "InsufficientPosition"

\* The payouts of the sets of a partition, added up.
PartitionPayout(payout_numerators, partition, amount, checks) ==
    SumSeq([j \in 1..Len(partition) |->
              PayoutFor(payout_numerators, partition[j], amount, checks).payout])

\* C31: for every payout vector with non-zero sum, every index set within
\* range and every amount a, the payout is computed and is at most a, is
\* exactly a for the full index set, and for every valid partition the
\* payouts of its sets add up to at most a and fall short of a by less than
\* the number of sets.
C31_PayoutAtMostAmount ==
    \A k \in DOMAIN conditions, a \in Amounts, checks \in BOOLEAN :
        LET pn == conditions[k].payout_numerators
            n == conditions[k].outcome_slot_count
        IN  (conditions[k].is_resolved /\ Len(pn) = n /\ SumSeq(pn) # 0) =>
              /\ \A index_set \in 0..(2^n - 1) :
                    LET r == PayoutFor(pn, index_set, a, checks) IN
                    r.err = "ok" /\ r.payout <= a
              /\ PayoutFor(pn, 2^n - 1, a, checks).payout = a
              /\ \A p \in PartitionInputs :
                    validate_partition(p, n) =>
                      /\ PartitionPayout(pn, p, a, checks) <= a
                      /\ a - PartitionPayout(pn, p, a, checks) < Len(p)

\* What the outstanding claims of k are owed, times the denominator: the sum
\* over the slots of supply times numerator.
ClaimsOwed(k) ==
    LET pn == conditions[k].payout_numerators IN
    SumSeq([j \in 1..Len(pn) |-> supply[OutcomeMint(k, j - 1)] * pn[j]])

\* C32: for a condition used with a single collateral mint, in every
\* reachable state in which it is resolved with numerators n_i of sum D, the
\* vault balance times D is at least the sum over the slots of supply times
\* n_i.
C32_SolventAfterResolution ==
    \A k \in DOMAIN conditions :
        conditions[k].is_resolved =>
            vault[<<k, USDC>>] * SumSeq(conditions[k].payout_numerators)
                >= ClaimsOwed(k)

\* C33: for a condition used with a single collateral mint, in every state
\* reached by prepareCondition, split, merge and reportPayout only, all the
\* outcome supplies of the condition are equal and each equals the vault
\* balance, whichever valid partitions, full or compound, were used.
C33_SuppliesEqualVault ==
    \A k \in DOMAIN conditions : \A i \in Slots(Ledger, k) :
        supply[OutcomeMint(k, i)] = vault[<<k, USDC>>]

\* A three-slot condition after a merge, with one unit left in the vault and
\* one claim of every slot outstanding; a split under the compound partition
\* {0,1} | {2} then raises the vault and every supply to MaxAmount.
C33_Witness ==
    /\ last = "merge"
    /\ \E k \in DOMAIN conditions :
          /\ conditions[k].outcome_slot_count = 3
          /\ vault[<<k, USDC>>] = MaxAmount - 1
          /\ \A i \in Slots(Ledger, k) : supply[OutcomeMint(k, i)] = MaxAmount - 1
          /\ LET s == split_position(Ledger, "alice", k, USDC, 1, <<3, 4>>) IN
             /\ s.err = "ok"
             /\ s.st.vault[<<k, USDC>>] = MaxAmount
             /\ \A i \in Slots(Ledger, k) : s.st.supply[OutcomeMint(k, i)] = MaxAmount

\* The sum of f over the set S.
RECURSIVE SumOver(_, _)
SumOver(S, f) ==
    IF S = {} THEN 0
    ELSE LET x == CHOOSE y \in S : TRUE IN f[x] + SumOver(S \ {x}, f)

\* Tokens of mint m in the users' accounts and in the conditions' vaults.
HeldByUsers(st, m) == SumOver(Users, [u \in Users |-> st.balance[<<u, m>>]])
LockedInVaults(st, m) == SumOver(Keys, [k \in Keys |-> st.vault[<<k, m>>]])

\* The claim of the parent that the child market takes as collateral.
ParentClaim == OutcomeMint(ParentKey, 1)

\* The result r of an instruction on the child has neither created nor
\* destroyed parent claims: it has moved them between users and vaults.
MovesParentClaims(r) ==
    /\ r.st.supply[ParentClaim] = supply[ParentClaim]
    /\ HeldByUsers(r.st, ParentClaim) + LockedInVaults(r.st, ParentClaim)
           = HeldByUsers(Ledger, ParentClaim) + LockedInVaults(Ledger, ParentClaim)

\* C34: for a child condition whose collateral is an outcome claim of a
\* parent, in every reachable state the child's vault balance is at most the
\* parent's supply of that claim, the supply of every outcome claim equals
\* what users hold plus what is locked in vaults, and a split, merge or
\* redeem on the child moves parent claims between users and the child's
\* vault without creating or destroying any.
C34_DeepSplitConsistent ==
    /\ vault[<<ChildKey, ParentClaim>>] <= supply[ParentClaim]
    /\ \A m \in OutcomeMints :
          supply[m] = HeldByUsers(Ledger, m) + LockedInVaults(Ledger, m)
    /\ ChildKey \in DOMAIN conditions =>
          \A u \in Users, a \in Amounts :
              /\ MovesParentClaims(split_position(Ledger, u, ChildKey, ParentClaim, a,
                                                  fullPartition(MinOutcomeSlots)))
              /\ MovesParentClaims(merge_positions(Ledger, u, ChildKey, ParentClaim, a,
                                                   fullPartition(MinOutcomeSlots)))
              /\ \A index_sets \in {<<1>>, <<2>>, <<1, 2>>}, checks \in BOOLEAN :
                    MovesParentClaims(redeem_positions(Ledger, u, ChildKey, ParentClaim,
                                                       index_sets, a, checks))

\* After a redeem on the resolved child, one parent claim is back with alice
\* and one is still locked in the child's vault.
C34_Witness ==
    /\ last = "redeem"
    /\ ChildKey \in DOMAIN conditions
    /\ conditions[ChildKey].is_resolved
    /\ supply[ParentClaim] = 2
    /\ vault[<<ChildKey, ParentClaim>>] = 1
    /\ balance[<<"alice", ParentClaim>>] = 1
    /\ supply[OutcomeMint(ChildKey, 1)] = 1

\* C35: for every list of one or more outcome mints, the remaining accounts
\* built by splitPosition, mergePositions and redeemPositions are the list
\* the integration test passes for the same mints: all outcome mints in
\* order, followed by all user outcome token accounts in order.
C35_ClientLayoutMatchesTest ==
    helper.fn \in ClientMethods =>
        helper.result = TestRemainingAccounts(helper.outcomeMints, helper.user)

\* The elements of a finite set of numbers, in ascending order.
RECURSIVE Ascending(_)
Ascending(S) ==
    IF S = {} THEN <<>>
    ELSE LET m == CHOOSE x \in S : \A y \in S : x <= y
         IN  <<m>> \o Ascending(S \ {m})

\* C36: the index-set conversions round-trip over every outcome index:
\* indexSetToOutcomes(outcomeToIndexSet(i)) is [i]; for distinct indices X,
\* indexSetToOutcomes(outcomesToIndexSet(X)) is X in ascending order; and
\* for every index set s, outcomesToIndexSet(indexSetToOutcomes(s)) is s.
C36_IndexSetRoundTrips ==
    /\ helper.fn = "outcomeToIndexSet" =>
          indexSetToOutcomes(helper.result) = <<helper.outcomeIndex>>
    /\ helper.fn = "outcomesToIndexSet" =>
          indexSetToOutcomes(helper.result) =
              Ascending({helper.outcomeIndices[j] :
                            j \in 1..Len(helper.outcomeIndices)})
    /\ helper.fn = "indexSetToOutcomes" =>
          outcomesToIndexSet(helper.result) = helper.indexSet

====
